---- MODULE Spec2Model ----
(***************************************************************************)
(* Build scripts of the Modular Macropad firmware:                         *)
(*   scripts/version.py          the Version Stamper                       *)
(*   scripts/build_sveltekit.py  the Frontend Packager                     *)
(* The two scripts share no state.  Each has its own specification:        *)
(*   SpecVersion  runs of version.main                                     *)
(*   SpecProcess  calls of process_frontend_files                          *)
(*   SpecMain     calls of build_sveltekit.main and build_frontend         *)
(***************************************************************************)
EXTENDS Integers, Sequences, FiniteSets, TLC

(***************************************************************************)
(* Bounds of the model.                                                    *)
(***************************************************************************)
\* number of version.main runs explored in one behaviour
MaxRuns == 3
\* largest build number a build-info file holds before the first run
MaxInitBuild == 2
\* number of files in a build-output tree
MaxBuildFiles == 3
\* number of entries the output directory holds before the first call
MaxPrior == 2
\* number of calls of process_frontend_files explored in one behaviour
MaxCalls == 2
\* number of calls of main and build_frontend explored in one behaviour
MaxMainCalls == 1

VARIABLES
    \* ---------------- version.py ----------------
    ini,              \* platformio.ini
    buildInfo,        \* .build_info.json
    header,           \* src/version.h
    environ,          \* os.environ entries the script sets
    vpc,              \* position in version.main
    semantic_version, \* local of main
    current_build,    \* local of main
    new_build,        \* local of main
    clock,            \* datetime.now(), a counter of started runs
    infoAtStart,      \* history: .build_info.json when the current run began
    freshRuns         \* history: runs completed since a start without
                      \* .build_info.json, -1 once a run was cut short

vvars == <<ini, buildInfo, header, environ, vpc, semantic_version,
           current_build, new_build, clock, infoAtStart, freshRuns>>

VARIABLES
    \* ---------------- build_sveltekit.py ----------------
    frontend,         \* FRONTEND_DIR: exists, lock/manifest files, node_modules
    build,            \* BUILD_DIR: the build-output tree
    out,              \* OUTPUT_DIR: data/web
    cwd,              \* os.getcwd() of the process
    pc,               \* position in the Frontend Packager
    stack,            \* <<"main">> while main is the caller, else <<>>
    ret,              \* value the last function returned
    exc,              \* exception in flight or propagated to the orchestrator
    package_manager,  \* local of build_frontend
    original_dir,     \* local of build_frontend
    items,            \* os.listdir(OUTPUT_DIR) entries the clean loop has left
    pending,          \* files os.walk has still to yield
    compressed_count, \* local of process_frontend_files
    error_count,      \* local of process_frontend_files
    calls,            \* calls made so far
    atCall,           \* history: out, cwd at the call of the function running
    prev,             \* history: the previous call of process_frontend_files
    trace,            \* history: calls, returns and commands of the current call
    walked            \* history: files the walk met and what happened to them

fvars == <<frontend, build, out, cwd, pc, stack, ret, exc, package_manager,
           original_dir, items, pending, compressed_count, error_count, calls,
           atCall, prev, trace, walked>>

vars == <<vvars, fvars>>

(***************************************************************************)
(* Text of numbers.  str(n), the f-string {n} and json.dump(n) all write   *)
(* the decimal digits of an int; json.load reads them back.                *)
(***************************************************************************)
Digits == <<"0", "1", "2", "3", "4", "5", "6", "7", "8", "9">>

RECURSIVE NatStr(_)
NatStr(n) ==
    IF n < 10 THEN <<Digits[n + 1]>>
    ELSE NatStr(n \div 10) \o <<Digits[(n % 10) + 1]>>

\* str(int)
Str(n) == IF n < 0 THEN <<"-">> \o NatStr(0 - n) ELSE NatStr(n)

DigitVal(c) == CHOOSE i \in 0..9 : Digits[i + 1] = c

RECURSIVE NatVal(_)
NatVal(s) ==
    IF Len(s) = 0 THEN 0
    ELSE 10 * NatVal(SubSeq(s, 1, Len(s) - 1)) + DigitVal(s[Len(s)])

\* int(text) for the text of an int
IntVal(s) == IF s[1] = "-" THEN 0 - NatVal(Tail(s)) ELSE NatVal(s)

(***************************************************************************)
(*                         scripts/version.py                              *)
(***************************************************************************)
\* a Python str between double quotes: its JSON text, and its text in
\* #define FIRMWARE_VERSION "{semantic_version}"
Quoted(s) == <<"\"", s, "\"">>

\* the str a quoted text stands for
Unquoted(tok) == tok[2]

IsNumberToken(tok) == Len(tok) > 0 /\ tok[1] # "\""

\* datetime.now() rendered as text
TimeText(t) == <<"T">> \o Str(t)

\* platformio.ini: the assignments it holds, in order
IniFiles ==
    { [exists |-> FALSE, lines |-> <<>>],
      [exists |-> TRUE,  lines |-> <<>>],
      [exists |-> TRUE,  lines |-> <<[key |-> "platform", value |-> "espressif32"]>>],
      [exists |-> TRUE,  lines |-> <<[key |-> "platform", value |-> "espressif32"],
                                     [key |-> "version",  value |-> "1.4.0"]>>],
      [exists |-> TRUE,  lines |-> <<[key |-> "version",  value |-> "2.3.4"],
                                     [key |-> "version",  value |-> "1.4.0"]>>],
      [exists |-> TRUE,  lines |-> <<[key |-> "version",  value |-> ""],
                                     [key |-> "version",  value |-> "2.3.4"]>>] }

\* re.search(r'version\s*=\s*"([^"]+)"', content): the first assignment to
\* version whose quoted value is not empty
VersionMatches(lines) ==
    { i \in 1..Len(lines) : lines[i].key = "version" /\ lines[i].value # "" }

get_semantic_version(file) ==
    LET m == VersionMatches(file.lines) IN
    IF m # {}
    THEN file.lines[CHOOSE i \in m : \A j \in m : i <= j].value
    ELSE "1.0.0"

\* .build_info.json: absent, unreadable as JSON, or a JSON object
NoInfo ==
    [exists |-> FALSE, valid |-> FALSE, keys |-> {},
     semantic_version |-> <<>>, build_number |-> <<>>, last_build |-> <<>>]

TornInfo == [NoInfo EXCEPT !.exists = TRUE]

InfoObject(keys, version, number, stamp) ==
    [exists |-> TRUE, valid |-> TRUE, keys |-> keys,
     semantic_version |-> version, build_number |-> number, last_build |-> stamp]

\* the value json.load gives for the build_number entry
Loads(tok) ==
    IF IsNumberToken(tok) THEN [isInt |-> TRUE, n |-> IntVal(tok)]
    ELSE [isInt |-> FALSE, n |-> 0]

PyInt(n) == [isInt |-> TRUE, n |-> n]

\* data.get('build_number', 1) when the file exists, 1 when it does not
get_current_build_number(info) ==
    IF info.exists
    THEN IF "build_number" \in info.keys THEN Loads(info.build_number) ELSE PyInt(1)
    ELSE PyInt(1)

NextBuildSame(current) == current

\* new_build = current_build + 1
NextBuild(current) == current + 1

\* json.dump of the three entries
save_build_info(version, build_number, now) ==
    InfoObject({"semantic_version", "build_number", "last_build"},
               Quoted(version), Str(build_number), Quoted(TimeText(now)))

NoHeader ==
    [exists |-> FALSE, whole |-> FALSE, version |-> <<>>, build_number |-> <<>>,
     date |-> <<>>]

TornHeader == [NoHeader EXCEPT !.exists = TRUE]

update_version_header_current(version, build_number, now) ==
    [exists |-> TRUE, whole |-> TRUE, version |-> Quoted(version),
     build_number |-> Str(build_number - 1), date |-> TimeText(now)]

\* the text of version.h: the three #define lines
update_version_header(version, build_number, now) ==
    [exists |-> TRUE, whole |-> TRUE, version |-> Quoted(version),
     build_number |-> Str(build_number), date |-> TimeText(now)]

NoEnviron == [BUILD_NUMBER |-> <<>>, SEMANTIC_VERSION |-> ""]

\* build-info files a first run can meet
InitInfos ==
    {NoInfo, TornInfo}
    \cup { InfoObject({"semantic_version", "build_number", "last_build"},
                      Quoted("1.4.0"), Str(n), Quoted(TimeText(0))) :
             n \in -1..MaxInitBuild }
    \cup { InfoObject({"semantic_version"}, Quoted("1.4.0"), <<>>, <<>>),
           InfoObject({"semantic_version", "build_number"}, Quoted("1.4.0"),
                      Quoted("7"), <<>>) }

\* the Version Stamper before its first run
VersionIdle ==
    /\ environ = NoEnviron
    /\ vpc = "idle"
    /\ semantic_version = ""
    /\ current_build = PyInt(0)
    /\ new_build = 0
    /\ clock = 0
    /\ infoAtStart = buildInfo
    /\ freshRuns = IF buildInfo.exists THEN -1 ELSE 0

\* version.main is entered
VStart ==
    /\ vpc \in {"idle", "done", "raised"}
    /\ clock < MaxRuns
    /\ clock' = clock + 1
    /\ infoAtStart' = buildInfo
    /\ freshRuns' = IF vpc = "raised" THEN -1 ELSE freshRuns
    /\ vpc' = "get_semantic_version"
    /\ UNCHANGED <<ini, buildInfo, header, environ, semantic_version,
                   current_build, new_build>>
    /\ UNCHANGED fvars

\* line 54; open() raises without the file
VGetSemanticVersion ==
    /\ vpc = "get_semantic_version"
    /\ IF ini.exists
       THEN /\ semantic_version' = get_semantic_version(ini)
            /\ vpc' = "get_current_build_number"
       ELSE /\ vpc' = "raised"
            /\ UNCHANGED semantic_version
    /\ UNCHANGED <<ini, buildInfo, header, environ, current_build, new_build,
                   clock, infoAtStart, freshRuns>>
    /\ UNCHANGED fvars

\* line 55; json.load raises on a file that is not JSON
VGetCurrentBuildNumber ==
    /\ vpc = "get_current_build_number"
    /\ IF buildInfo.exists /\ ~buildInfo.valid
       THEN /\ vpc' = "raised"
            /\ UNCHANGED current_build
       ELSE /\ current_build' = get_current_build_number(buildInfo)
            /\ vpc' = "increment"
    /\ UNCHANGED <<ini, buildInfo, header, environ, semantic_version, new_build,
                   clock, infoAtStart, freshRuns>>
    /\ UNCHANGED fvars

\* line 56; str + int raises TypeError
VIncrement ==
    /\ vpc = "increment"
    /\ IF current_build.isInt
       THEN /\ new_build' = NextBuild(current_build.n)
            /\ vpc' = "save_build_info"
       ELSE /\ vpc' = "raised"
            /\ UNCHANGED new_build
    /\ UNCHANGED <<ini, buildInfo, header, environ, semantic_version, current_build,
                   clock, infoAtStart, freshRuns>>
    /\ UNCHANGED fvars

\* line 59: the file is written whole, or open() raises and the file is as
\* it was, or the write is cut short and the file is left torn
VSaveBuildInfo ==
    /\ vpc = "save_build_info"
    /\ \/ /\ buildInfo' = save_build_info(semantic_version, new_build, clock)
          /\ vpc' = "update_version_header"
       \/ /\ vpc' = "raised"
          /\ UNCHANGED buildInfo
       \/ /\ vpc' = "raised"
          /\ buildInfo' = TornInfo
    /\ UNCHANGED <<ini, header, environ, semantic_version, current_build, new_build,
                   clock, infoAtStart, freshRuns>>
    /\ UNCHANGED fvars

\* line 60, with the same three outcomes
VUpdateVersionHeader ==
    /\ vpc = "update_version_header"
    /\ \/ /\ header' = update_version_header(semantic_version, new_build, clock)
          /\ vpc' = "environ"
       \/ /\ vpc' = "raised"
          /\ UNCHANGED header
       \/ /\ vpc' = "raised"
          /\ header' = TornHeader
    /\ UNCHANGED <<ini, buildInfo, environ, semantic_version, current_build, new_build,
                   clock, infoAtStart, freshRuns>>
    /\ UNCHANGED fvars

\* lines 63-67
VSetEnviron ==
    /\ vpc = "environ"
    /\ environ' = [BUILD_NUMBER |-> Str(new_build), SEMANTIC_VERSION |-> semantic_version]
    /\ vpc' = "done"
    /\ freshRuns' = IF freshRuns >= 0 THEN freshRuns + 1 ELSE freshRuns
    /\ UNCHANGED <<ini, buildInfo, header, semantic_version, current_build, new_build,
                   clock, infoAtStart>>
    /\ UNCHANGED fvars

NextVersion ==
    \/ VStart
    \/ VGetSemanticVersion
    \/ VGetCurrentBuildNumber
    \/ VIncrement
    \/ VSaveBuildInfo
    \/ VUpdateVersionHeader
    \/ VSetEnviron

(***************************************************************************)
(*                      scripts/build_sveltekit.py                         *)
(*                                                                         *)
(* A path is <<directory, name>>: the directory is <<>> for the top of a   *)
(* tree or <<"sub">> for a subdirectory, the name is a file name split     *)
(* before its suffix, <<"a">> or <<"a", ".gz">>.                           *)
(* Every call into the operating system may raise OSError; os.path.exists  *)
(* and print never raise; KeyboardInterrupt arrives only while the script  *)
(* waits for a child process.                                              *)
(***************************************************************************)
Top == <<>>

SubDirs == {<<"sub">>}

FileNames == {<<"a">>, <<"a", ".gz">>}

Paths == (({Top} \cup SubDirs) \X FileNames)

\* file.endswith('.gz')
endswith_gz(name) == name[Len(name)] = ".gz"

\* f"{file_path}.gz"
GzPath(path) == <<path[1], Append(path[2], ".gz")>>

\* what a file holds
Stale(path) == [kind |-> "stale", of |-> path]

Raw(path) == [kind |-> "raw", of |-> path]

Gzip(data) == [kind |-> "gzip", of |-> data.of]

Torn(data) == [kind |-> "torn", of |-> data.of]

DirsOf(files) == { f[1] : f \in files } \ {Top}

NoFiles == [f \in {} |-> Stale(f)]

Without(files, path) == [f \in (DOMAIN files) \ {path} |-> files[f]]

With(files, path, data) ==
    [f \in (DOMAIN files) \cup {path} |-> IF f = path THEN data ELSE files[f]]

\* BUILD_DIR
NoBuild == [exists |-> FALSE, dirs |-> {}, files |-> {}]

BuildTrees ==
    { t \in { [exists |-> TRUE, dirs |-> D, files |-> F] :
                F \in SUBSET Paths, D \in SUBSET SubDirs } :
        /\ Cardinality(t.files) <= MaxBuildFiles
        /\ DirsOf(t.files) \subseteq t.dirs }

\* OUTPUT_DIR: its subdirectories, its regular files, and the entries at its
\* top that are neither a regular file nor a directory (a dangling symbolic
\* link, a link to a device, a FIFO, a socket)
NoOut == [exists |-> FALSE, dirs |-> {}, files |-> NoFiles, special |-> {}]

PriorOuts ==
    {NoOut} \cup
    { o \in { [exists |-> TRUE, dirs |-> D, files |-> [f \in F |-> Stale(f)],
               special |-> S] :
                F \in SUBSET Paths, D \in SUBSET SubDirs, S \in SUBSET FileNames } :
        /\ DirsOf(DOMAIN o.files) \subseteq o.dirs
        /\ \A n \in o.special : <<Top, n>> \notin DOMAIN o.files
        /\ Cardinality(DOMAIN o.files) + Cardinality(o.dirs)
               + Cardinality(o.special) <= MaxPrior }

\* os.listdir(OUTPUT_DIR), each entry with what os.path.isfile / isdir say
Listdir(o) ==
    { [kind |-> "file", name |-> f[2]] : f \in { g \in DOMAIN o.files : g[1] = Top } }
    \cup { [kind |-> "dir", name |-> d] : d \in o.dirs }
    \cup { [kind |-> "special", name |-> n] : n \in o.special }

RemoveFileNot(o, name) == o

\* os.remove(item_path)
RemoveFile(o, name) == [o EXCEPT !.files = Without(o.files, <<Top, name>>)]

RemoveTreeNot(o, dir) == o

\* shutil.rmtree(item_path)
RemoveTree(o, dir) ==
    [o EXCEPT !.dirs = o.dirs \ {dir},
              !.files = [f \in { g \in DOMAIN o.files : g[1] # dir } |-> o.files[f]]]

\* shutil.copytree(BUILD_DIR, OUTPUT_DIR, dirs_exist_ok=True) having copied
\* the files in `copied`; a copy onto a symbolic link writes through it
Copied(o, dirs, copied) ==
    [exists |-> TRUE,
     dirs |-> o.dirs \cup dirs,
     files |-> [f \in (DOMAIN o.files) \cup copied |->
                   IF f \in copied THEN Raw(f) ELSE o.files[f]],
     special |-> o.special \ { f[2] : f \in { g \in copied : g[1] = Top } }]

\* the non-directory entries os.walk(OUTPUT_DIR) yields
WalkEntries(o) ==
    { [special |-> FALSE, path |-> f] : f \in DOMAIN o.files }
    \cup { [special |-> TRUE, path |-> <<Top, n>>] : n \in o.special }

\* os.walk is top-down: the files at the top come before those below
NextInWalk(left) ==
    IF \E e \in left : e.path[1] = Top
    THEN { e \in left : e.path[1] = Top }
    ELSE left

\* compress_file(file_path): the outcomes, each with the value returned and
\* the output directory left behind.  A regular file: compressed and removed;
\* open() raises; the write is cut short; os.remove raises.  Another entry:
\* open() raises, or it reads as empty (a link to a device).
compress_file(o, e) ==
    LET gz == GzPath(e.path) IN
    IF e.special
    THEN { [ok |-> FALSE, out |-> o],
           [ok |-> TRUE,
            out |-> [o EXCEPT !.files = With(o.files, gz, Gzip(Raw(e.path))),
                              !.special = o.special \ {e.path[2]}]] }
    ELSE LET data == o.files[e.path] IN
         { [ok |-> TRUE,
            out |-> [o EXCEPT !.files = With(Without(o.files, e.path), gz, Gzip(data))]],
           [ok |-> FALSE, out |-> o],
           [ok |-> FALSE, out |-> [o EXCEPT !.files = With(o.files, gz, Torn(data))]],
           [ok |-> FALSE, out |-> [o EXCEPT !.files = With(o.files, gz, Gzip(data))]] }

BuildDirAssumed(b) == TRUE

\* line 99: os.path.exists(BUILD_DIR)
BuildDirFound(b) == b.exists

WalkResultTrue(errors) == "True"

\* line 139: return error_count == 0
WalkResult(errors) == IF errors = 0 THEN "True" ELSE "False"

NoWalk == [began |-> FALSE, met |-> {}, once |-> {}, again |-> {}, failed |-> {}]

NoPrev == [valid |-> FALSE, ret |-> "none", out |-> NoOut, plain |-> FALSE]

buildLocals == <<package_manager, original_dir>>

processLocals == <<items, pending, compressed_count, error_count>>

\* where control is with the build orchestrator
RestStates == {"idle", "b_ret", "b_raise", "p_ret", "m_ret", "m_raise"}

\* the locals of a function that has not yet assigned them
FreshLocals ==
    /\ package_manager' = "None"
    /\ original_dir' = "None"
    /\ items' = {}
    /\ pending' = {}
    /\ compressed_count' = 0
    /\ error_count' = 0

\* the except clause of process_frontend_files, lines 140-142
PExcept ==
    /\ pc' = "p_ret"
    /\ ret' = "False"

\* process_frontend_files is called by the build orchestrator
ProcessCall ==
    /\ pc \in RestStates
    /\ stack = <<>>
    /\ calls < MaxCalls
    /\ calls' = calls + 1
    /\ pc' = "p_exists"
    /\ ret' = "none"
    /\ exc' = "none"
    /\ atCall' = [out |-> out, cwd |-> cwd, frontend |-> frontend]
    /\ prev' = IF pc = "p_ret"
               THEN [valid |-> TRUE, ret |-> ret, out |-> out,
                     plain |-> atCall.out.special = {}]
               ELSE NoPrev
    /\ trace' = <<"call process_frontend_files">>
    /\ walked' = NoWalk
    /\ FreshLocals
    /\ UNCHANGED <<frontend, build, out, cwd, stack>>
    /\ UNCHANGED vvars

\* lines 96-101
PExists ==
    /\ pc = "p_exists"
    /\ IF BuildDirFound(build)
       THEN pc' = "p_makedirs" /\ UNCHANGED ret
       ELSE pc' = "p_ret" /\ ret' = "False"
    /\ UNCHANGED <<frontend, build, out, cwd, stack, exc, buildLocals, processLocals,
                   calls, atCall, prev, trace, walked>>
    /\ UNCHANGED vvars

\* line 106: os.makedirs(OUTPUT_DIR, exist_ok=True)
PMakedirs ==
    /\ pc = "p_makedirs"
    /\ \/ /\ out' = [out EXCEPT !.exists = TRUE]
          /\ pc' = "p_listdir"
          /\ UNCHANGED ret
       \/ /\ ~out.exists
          /\ PExcept
          /\ UNCHANGED out
    /\ UNCHANGED <<frontend, build, cwd, stack, exc, buildLocals, processLocals,
                   calls, atCall, prev, trace, walked>>
    /\ UNCHANGED vvars

\* line 109: os.listdir(OUTPUT_DIR)
PListdir ==
    /\ pc = "p_listdir"
    /\ items' = Listdir(out)
    /\ pc' = "p_clean"
    /\ UNCHANGED <<frontend, build, out, cwd, stack, ret, exc, buildLocals,
                   pending, compressed_count, error_count,
                   calls, atCall, prev, trace, walked>>
    /\ UNCHANGED vvars

\* lines 109-114, one item: a regular file is removed, a directory is
\* removed with all below it, any other entry is passed over
PCleanItem ==
    /\ pc = "p_clean"
    /\ \E item \in items :
        /\ items' = items \ {item}
        /\ \/ /\ out' = IF item.kind = "file" THEN RemoveFile(out, item.name)
                        ELSE IF item.kind = "dir" THEN RemoveTree(out, item.name)
                        ELSE out
              /\ pc' = "p_clean"
              /\ UNCHANGED ret
           \/ /\ item.kind \in {"file", "dir"}
              /\ PExcept
              /\ UNCHANGED out
    /\ UNCHANGED <<frontend, build, cwd, stack, exc, buildLocals,
                   pending, compressed_count, error_count,
                   calls, atCall, prev, trace, walked>>
    /\ UNCHANGED vvars

\* lines 116-118: the loop is over; the parent of OUTPUT_DIR exists already
PCleanDone ==
    /\ pc = "p_clean"
    /\ items = {}
    /\ pc' = "p_copytree"
    /\ UNCHANGED <<frontend, build, out, cwd, stack, ret, exc, buildLocals, processLocals,
                   calls, atCall, prev, trace, walked>>
    /\ UNCHANGED vvars

\* lines 121-122: the whole tree is copied, or copytree raises having
\* copied some of the files
PCopytree ==
    /\ pc = "p_copytree"
    /\ \/ /\ build.exists
          /\ out' = Copied(out, build.dirs, build.files)
          /\ pc' = "p_walk_start"
          /\ UNCHANGED ret
       \/ /\ \E some \in SUBSET build.files :
                out' = IF build.exists THEN Copied(out, DirsOf(some), some) ELSE out
          /\ PExcept
    /\ UNCHANGED <<frontend, build, cwd, stack, exc, buildLocals, processLocals,
                   calls, atCall, prev, trace, walked>>
    /\ UNCHANGED vvars

\* lines 125-128
PWalkStart ==
    /\ pc = "p_walk_start"
    /\ compressed_count' = 0
    /\ error_count' = 0
    /\ pending' = WalkEntries(out)
    /\ walked' = [NoWalk EXCEPT !.began = TRUE,
                     !.met = { e \in WalkEntries(out) : ~endswith_gz(e.path[2]) }]
    /\ pc' = "p_walk"
    /\ UNCHANGED <<frontend, build, out, cwd, stack, ret, exc, buildLocals, items,
                   calls, atCall, prev, trace>>
    /\ UNCHANGED vvars

\* lines 129-136, one file
PWalkFile ==
    /\ pc = "p_walk"
    /\ \E e \in NextInWalk(pending) :
        /\ pending' = pending \ {e}
        /\ IF endswith_gz(e.path[2])
           THEN UNCHANGED <<out, compressed_count, error_count, walked>>
           ELSE \E r \in compress_file(out, e) :
                  /\ out' = r.out
                  /\ compressed_count' = IF r.ok THEN compressed_count + 1
                                         ELSE compressed_count
                  /\ error_count' = IF r.ok THEN error_count ELSE error_count + 1
                  /\ walked' = [walked EXCEPT
                                  !.once = IF e \in walked.once THEN walked.once
                                           ELSE walked.once \cup {e},
                                  !.again = IF e \in walked.once THEN walked.again \cup {e}
                                            ELSE walked.again,
                                  !.failed = IF r.ok THEN walked.failed
                                             ELSE walked.failed \cup {e}]
    /\ UNCHANGED <<frontend, build, cwd, pc, stack, ret, exc, buildLocals, items,
                   calls, atCall, prev, trace>>
    /\ UNCHANGED vvars

\* lines 138-139
PWalkDone ==
    /\ pc = "p_walk"
    /\ pending = {}
    /\ ret' = WalkResult(error_count)
    /\ pc' = "p_ret"
    /\ UNCHANGED <<frontend, build, out, cwd, stack, exc, buildLocals, processLocals,
                   calls, atCall, prev, trace, walked>>
    /\ UNCHANGED vvars

Markers == {"pnpm-lock.yaml", "yarn.lock", "package-lock.json", "package.json"}

NoFrontend == [exists |-> FALSE, markers |-> {}, node_modules |-> FALSE]

\* get_package_manager(), lines 24-32
get_package_manager(f) ==
    IF "pnpm-lock.yaml" \in f.markers THEN "pnpm"
    ELSE IF "yarn.lock" \in f.markers THEN "yarn"
    ELSE IF "package-lock.json" \in f.markers \/ "package.json" \in f.markers THEN "npm"
    ELSE "None"

ProceedAlways(result) == TRUE

\* line 155: if build_frontend():
ProceedToProcess(result) == result = "True"

\* an exception leaves build_frontend
BRaise(e) ==
    /\ pc' = "b_raise"
    /\ exc' = e

\* build_frontend is called by the build orchestrator
BuildCall ==
    /\ pc \in RestStates
    /\ stack = <<>>
    /\ calls < MaxMainCalls
    /\ calls' = calls + 1
    /\ pc' = "b_exists"
    /\ ret' = "none"
    /\ exc' = "none"
    /\ atCall' = [out |-> out, cwd |-> cwd, frontend |-> frontend]
    /\ trace' = <<"call build_frontend">>
    /\ walked' = NoWalk
    /\ FreshLocals
    /\ UNCHANGED <<frontend, build, out, cwd, stack, prev>>
    /\ UNCHANGED vvars

\* lines 36-41
BExists ==
    /\ pc = "b_exists"
    /\ IF frontend.exists
       THEN pc' = "b_package_manager" /\ UNCHANGED ret
       ELSE pc' = "b_ret" /\ ret' = "False"
    /\ UNCHANGED <<frontend, build, out, cwd, stack, exc, buildLocals, processLocals,
                   calls, atCall, prev, trace, walked>>
    /\ UNCHANGED vvars

\* lines 43-48
BPackageManager ==
    /\ pc = "b_package_manager"
    /\ package_manager' = get_package_manager(frontend)
    /\ IF package_manager' = "None"
       THEN pc' = "b_ret" /\ ret' = "False"
       ELSE pc' = "b_getcwd" /\ UNCHANGED ret
    /\ UNCHANGED <<frontend, build, out, cwd, stack, exc, original_dir, processLocals,
                   calls, atCall, prev, trace, walked>>
    /\ UNCHANGED vvars

\* line 50: original_dir = os.getcwd(), outside the try
BGetcwd ==
    /\ pc = "b_getcwd"
    /\ \/ /\ original_dir' = cwd
          /\ pc' = "b_chdir"
          /\ UNCHANGED exc
       \/ /\ BRaise("OSError")
          /\ UNCHANGED original_dir
    /\ UNCHANGED <<frontend, build, out, cwd, stack, ret, package_manager, processLocals,
                   calls, atCall, prev, trace, walked>>
    /\ UNCHANGED vvars

\* line 51: os.chdir(FRONTEND_DIR), outside the try
BChdir ==
    /\ pc = "b_chdir"
    /\ \/ /\ cwd' = "frontend"
          /\ pc' = "b_node_modules"
          /\ UNCHANGED exc
       \/ /\ BRaise("OSError")
          /\ UNCHANGED cwd
    /\ UNCHANGED <<frontend, build, out, stack, ret, buildLocals, processLocals,
                   calls, atCall, prev, trace, walked>>
    /\ UNCHANGED vvars

\* lines 54-56
BNodeModules ==
    /\ pc = "b_node_modules"
    /\ pc' = IF frontend.node_modules THEN "b_build" ELSE "b_install"
    /\ UNCHANGED <<frontend, build, out, cwd, stack, ret, exc, buildLocals, processLocals,
                   calls, atCall, prev, trace, walked>>
    /\ UNCHANGED vvars

\* line 57: subprocess.run([package_manager, "install"], check=True).  The
\* command exits zero; it exits nonzero (CalledProcessError); it cannot be
\* started (OSError); the wait is interrupted (KeyboardInterrupt).
BInstall ==
    /\ pc = "b_install"
    /\ \/ /\ frontend' = [frontend EXCEPT !.node_modules = TRUE]
          /\ trace' = Append(trace, "install exit 0")
          /\ pc' = "b_build"
          /\ UNCHANGED exc
       \/ /\ frontend' \in {frontend, [frontend EXCEPT !.node_modules = TRUE]}
          /\ trace' = Append(trace, "install exit 1")
          /\ pc' = "b_except_called"
          /\ UNCHANGED exc
       \/ /\ trace' = Append(trace, "install not started")
          /\ pc' = "b_except_other"
          /\ UNCHANGED <<frontend, exc>>
       \/ /\ trace' = Append(trace, "install interrupted")
          /\ BRaise("KeyboardInterrupt")
          /\ UNCHANGED frontend
    /\ UNCHANGED <<build, out, cwd, stack, ret, buildLocals, processLocals,
                   calls, atCall, prev, walked>>
    /\ UNCHANGED vvars

\* line 61: subprocess.run([package_manager, "run", "build"], check=True),
\* with the same four outcomes; a build that exits zero has written a tree
\* or left BUILD_DIR as it was, one that fails may have emptied it
BBuild ==
    /\ pc = "b_build"
    /\ \/ /\ build' \in {build} \cup BuildTrees
          /\ trace' = Append(trace, "build exit 0")
          /\ pc' = "b_check_build"
          /\ UNCHANGED exc
       \/ /\ build' \in {build, NoBuild}
          /\ trace' = Append(trace, "build exit 1")
          /\ pc' = "b_except_called"
          /\ UNCHANGED exc
       \/ /\ trace' = Append(trace, "build not started")
          /\ pc' = "b_except_other"
          /\ UNCHANGED <<build, exc>>
       \/ /\ build' \in {build, NoBuild}
          /\ trace' = Append(trace, "build interrupted")
          /\ BRaise("KeyboardInterrupt")
    /\ UNCHANGED <<frontend, out, cwd, stack, ret, buildLocals, processLocals,
                   calls, atCall, prev, walked>>
    /\ UNCHANGED vvars

\* line 64
BCheckBuild ==
    /\ pc = "b_check_build"
    /\ pc' = IF build.exists THEN "b_restore" ELSE "b_missing"
    /\ UNCHANGED <<frontend, build, out, cwd, stack, ret, exc, buildLocals, processLocals,
                   calls, atCall, prev, trace, walked>>
    /\ UNCHANGED vvars

\* lines 65-67, inside the try
BMissing ==
    /\ pc = "b_missing"
    /\ \/ /\ cwd' = original_dir
          /\ ret' = "False"
          /\ pc' = "b_ret"
       \/ /\ pc' = "b_except_other"
          /\ UNCHANGED <<cwd, ret>>
    /\ UNCHANGED <<frontend, build, out, stack, exc, buildLocals, processLocals,
                   calls, atCall, prev, trace, walked>>
    /\ UNCHANGED vvars

\* lines 69-70, inside the try
BRestore ==
    /\ pc = "b_restore"
    /\ \/ /\ cwd' = original_dir
          /\ ret' = "True"
          /\ pc' = "b_ret"
       \/ /\ pc' = "b_except_other"
          /\ UNCHANGED <<cwd, ret>>
    /\ UNCHANGED <<frontend, build, out, stack, exc, buildLocals, processLocals,
                   calls, atCall, prev, trace, walked>>
    /\ UNCHANGED vvars

\* lines 71-74: except subprocess.CalledProcessError
BExceptCalled ==
    /\ pc = "b_except_called"
    /\ \/ /\ cwd' = original_dir
          /\ ret' = "False"
          /\ pc' = "b_ret"
          /\ UNCHANGED exc
       \/ /\ BRaise("OSError")
          /\ UNCHANGED <<cwd, ret>>
    /\ UNCHANGED <<frontend, build, out, stack, buildLocals, processLocals,
                   calls, atCall, prev, trace, walked>>
    /\ UNCHANGED vvars

\* lines 75-78: except Exception
BExceptOther ==
    /\ pc = "b_except_other"
    /\ \/ /\ cwd' = original_dir
          /\ ret' = "False"
          /\ pc' = "b_ret"
          /\ UNCHANGED exc
       \/ /\ BRaise("OSError")
          /\ UNCHANGED <<cwd, ret>>
    /\ UNCHANGED <<frontend, build, out, stack, buildLocals, processLocals,
                   calls, atCall, prev, trace, walked>>
    /\ UNCHANGED vvars

\* main is called by the build orchestrator
MainCall ==
    /\ pc \in RestStates
    /\ stack = <<>>
    /\ calls < MaxMainCalls
    /\ calls' = calls + 1
    /\ stack' = <<"main">>
    /\ pc' = "m_exists"
    /\ ret' = "none"
    /\ exc' = "none"
    /\ atCall' = [out |-> out, cwd |-> cwd, frontend |-> frontend]
    /\ trace' = <<>>
    /\ walked' = NoWalk
    /\ FreshLocals
    /\ UNCHANGED <<frontend, build, out, cwd, prev>>
    /\ UNCHANGED vvars

\* lines 146-155: without FRONTEND_DIR main returns, else it calls
\* build_frontend
MExists ==
    /\ pc = "m_exists"
    /\ IF frontend.exists
       THEN /\ pc' = "b_exists"
            /\ trace' = Append(trace, "call build_frontend")
            /\ UNCHANGED stack
       ELSE /\ pc' = "m_ret"
            /\ stack' = <<>>
            /\ UNCHANGED trace
    /\ UNCHANGED <<frontend, build, out, cwd, ret, exc, buildLocals, processLocals,
                   calls, atCall, prev, walked>>
    /\ UNCHANGED vvars

\* lines 155-162: build_frontend has returned to main
MAfterBuild ==
    /\ pc = "b_ret"
    /\ stack = <<"main">>
    /\ IF ProceedToProcess(ret)
       THEN /\ pc' = "p_exists"
            /\ trace' = trace \o <<"build_frontend " \o ret, "call process_frontend_files">>
            /\ UNCHANGED stack
       ELSE /\ pc' = "m_ret"
            /\ trace' = Append(trace, "build_frontend " \o ret)
            /\ stack' = <<>>
    /\ UNCHANGED <<frontend, build, out, cwd, ret, exc, buildLocals, processLocals,
                   calls, atCall, prev, walked>>
    /\ UNCHANGED vvars

\* lines 157-160: process_frontend_files has returned to main
MAfterProcess ==
    /\ pc = "p_ret"
    /\ stack = <<"main">>
    /\ pc' = "m_ret"
    /\ trace' = Append(trace, "process_frontend_files " \o ret)
    /\ stack' = <<>>
    /\ UNCHANGED <<frontend, build, out, cwd, ret, exc, buildLocals, processLocals,
                   calls, atCall, prev, walked>>
    /\ UNCHANGED vvars

\* main has no try: what leaves build_frontend leaves main
MPropagate ==
    /\ pc = "b_raise"
    /\ stack = <<"main">>
    /\ pc' = "m_raise"
    /\ stack' = <<>>
    /\ UNCHANGED <<frontend, build, out, cwd, ret, exc, buildLocals, processLocals,
                   calls, atCall, prev, trace, walked>>
    /\ UNCHANGED vvars

\* the Frontend Packager before its first call
PackagerIdle ==
    /\ pc = "idle"
    /\ stack = <<>>
    /\ ret = "none"
    /\ exc = "none"
    /\ package_manager = "None"
    /\ original_dir = "None"
    /\ items = {}
    /\ pending = {}
    /\ compressed_count = 0
    /\ error_count = 0
    /\ calls = 0
    /\ atCall = [out |-> out, cwd |-> cwd, frontend |-> frontend]
    /\ prev = NoPrev
    /\ trace = <<>>
    /\ walked = NoWalk

\* the files of the other script, while one script is looked at
VersionAbsent ==
    /\ ini = [exists |-> FALSE, lines |-> <<>>]
    /\ buildInfo = NoInfo
    /\ header = NoHeader
    /\ VersionIdle

PackagerAbsent ==
    /\ frontend = NoFrontend
    /\ build = NoBuild
    /\ out = NoOut
    /\ cwd = "project"
    /\ PackagerIdle

InitVersion ==
    /\ ini \in IniFiles
    /\ buildInfo \in InitInfos
    /\ header \in {NoHeader, update_version_header("0.9.0", 1, 0)}
    /\ VersionIdle
    /\ PackagerAbsent

\* a checkout with the frontend project built beside it
InitProcess ==
    /\ frontend = [exists |-> TRUE, markers |-> {"package.json"}, node_modules |-> TRUE]
    /\ build \in {NoBuild} \cup BuildTrees
    /\ out \in PriorOuts
    /\ cwd = "project"
    /\ PackagerIdle
    /\ VersionAbsent

NextProcess ==
    \/ ProcessCall
    \/ PExists
    \/ PMakedirs
    \/ PListdir
    \/ PCleanItem
    \/ PCleanDone
    \/ PCopytree
    \/ PWalkStart
    \/ PWalkFile
    \/ PWalkDone

\* a checkout, with or without the frontend project beside it
InitMain ==
    /\ frontend \in {NoFrontend}
          \cup [exists : {TRUE}, markers : SUBSET Markers, node_modules : BOOLEAN]
    /\ build \in IF frontend.exists
                 THEN {NoBuild, [exists |-> TRUE, dirs |-> {}, files |-> {<<Top, <<"a">>>>}]}
                 ELSE {NoBuild}
    /\ out \in {NoOut,
                [exists |-> TRUE, dirs |-> {},
                 files |-> [f \in {<<Top, <<"a">>>>} |-> Stale(f)], special |-> {}]}
    /\ cwd \in {"project", "frontend"}
    /\ PackagerIdle
    /\ VersionAbsent

NextMain ==
    \/ MainCall
    \/ BuildCall
    \/ MExists
    \/ BExists
    \/ BPackageManager
    \/ BGetcwd
    \/ BChdir
    \/ BNodeModules
    \/ BInstall
    \/ BBuild
    \/ BCheckBuild
    \/ BMissing
    \/ BRestore
    \/ BExceptCalled
    \/ BExceptOther
    \/ MAfterBuild
    \/ MPropagate
    \/ PExists
    \/ PMakedirs
    \/ PListdir
    \/ PCleanItem
    \/ PCleanDone
    \/ PCopytree
    \/ PWalkStart
    \/ PWalkFile
    \/ PWalkDone
    \/ MAfterProcess

SpecMain == InitMain /\ [][NextMain]_vars

SpecVersion == InitVersion /\ [][NextVersion]_vars

SpecProcess == InitProcess /\ [][NextProcess]_vars

(***************************************************************************)
(* Claims about the Version Stamper                                        *)
(***************************************************************************)
\* the build number a build-info file stands for: 1 when the file or the
\* entry is absent
Persisted(info) ==
    IF info.exists /\ "build_number" \in info.keys THEN IntVal(info.build_number) ELSE 1

\* C1: a completed run of version.main persists a build_number exactly 1
\* greater than the one persisted before the run (1 when the file or the
\* entry is absent); after k completed runs from no build-info file the
\* file holds 1 + k, so 2 after the first run and 3 after the second.
C1_BuildNumberIncrements ==
    vpc = "done" =>
        /\ buildInfo.valid /\ "build_number" \in buildInfo.keys
        /\ IsNumberToken(buildInfo.build_number)
        /\ IntVal(buildInfo.build_number) = Persisted(infoAtStart) + 1
        /\ freshRuns >= 1 => IntVal(buildInfo.build_number) = 1 + freshRuns

C1_Witness ==
    /\ vpc = "done"
    /\ freshRuns = 2
    /\ buildInfo.build_number = <<"3">>

\* C8: after a completed run the header, the build-info record and the two
\* environment entries carry the same version and the same build number;
\* with version "1.4.0" configured and no build-info file they carry
\* "1.4.0" and 2.
C8_OutputsAgree ==
    vpc = "done" =>
        /\ header.whole /\ buildInfo.valid
        /\ Unquoted(header.version) = Unquoted(buildInfo.semantic_version)
        /\ Unquoted(header.version) = environ.SEMANTIC_VERSION
        /\ IntVal(header.build_number) = IntVal(buildInfo.build_number)
        /\ IntVal(header.build_number) = IntVal(environ.BUILD_NUMBER)
        /\ (get_semantic_version(ini) = "1.4.0" /\ ~infoAtStart.exists) =>
               /\ Unquoted(header.version) = "1.4.0"
               /\ IntVal(header.build_number) = 2
               /\ Unquoted(buildInfo.semantic_version) = "1.4.0"
               /\ IntVal(buildInfo.build_number) = 2

C8_Witness ==
    /\ vpc = "done"
    /\ ~infoAtStart.exists
    /\ Unquoted(header.version) = "1.4.0"
    /\ header.build_number = <<"2">>

(***************************************************************************)
(* Claims about process_frontend_files, under SpecProcess                  *)
(***************************************************************************)
\* C3: called without BUILD_DIR, process_frontend_files returns failure and
\* OUTPUT_DIR is as it was at the call: not created, nothing in it deleted
\* or changed, at the return and at every step before it.
C3_MissingBuildDirLeavesOutput ==
    (pc \in {"p_exists", "p_ret"} /\ ~build.exists) =>
        /\ out = atCall.out
        /\ pc = "p_ret" => ret = "False"

C3_Witness ==
    /\ pc = "p_ret"
    /\ ~build.exists
    /\ ret = "False"
    /\ DOMAIN out.files # {}
    /\ out.dirs # {}

NoGzInBuild == \A f \in build.files : ~endswith_gz(f[2])

\* f"{file_path}.gz" undone
Stem(path) == <<path[1], SubSeq(path[2], 1, Len(path[2]) - 1)>>

\* OUTPUT_DIR holds one <path>.gz, the compressed file, for each file of
\* BUILD_DIR, and no other file
OnlyCompressedBuild ==
    /\ out.exists
    /\ DOMAIN out.files = { GzPath(f) : f \in build.files }
    /\ \A g \in DOMAIN out.files : out.files[g] = Gzip(Raw(Stem(g)))
    /\ out.special = {}
    /\ Cardinality(DOMAIN out.files) = Cardinality(build.files)
    /\ \A g \in DOMAIN out.files : endswith_gz(g[2])
    /\ DirsOf(DOMAIN out.files) \subseteq out.dirs

GzNames(o) ==
    { f \in DOMAIN o.files : endswith_gz(f[2]) }
    \cup { <<Top, n>> : n \in { m \in o.special : endswith_gz(m) } }

\* what a run leaves of a build-output tree: <path>.gz for a file without
\* the suffix, the file itself for one with it
PackedNames(b) ==
    { GzPath(f) : f \in { g \in b.files : ~endswith_gz(g[2]) } }
    \cup { f \in b.files : endswith_gz(f[2]) }

C9_WalkGoesOn ==
    (pc = "p_ret" /\ walked.began) =>
        /\ walked.once = walked.met
        /\ walked.again = {}
        /\ compressed_count + error_count = Cardinality(walked.met)
        /\ error_count = Cardinality(walked.failed)
        /\ ret = "False" <=> walked.failed # {}
        /\ ret = "True" <=> walked.failed = {}

C9_Witness ==
    /\ pc = "p_ret"
    /\ walked.began
    /\ Cardinality(walked.met) = 2
    /\ Cardinality(walked.failed) = 1
    /\ compressed_count = 1
    /\ ret = "False"

(***************************************************************************)
(* Claims about build_frontend and main, under SpecMain                    *)
(***************************************************************************)
Has(event) == \E i \in 1..Len(trace) : trace[i] = event

Before(first, second) ==
    \E i, j \in 1..Len(trace) : i < j /\ trace[i] = first /\ trace[j] = second

BuildFrontendOver == pc \in {"b_ret", "b_raise"}

\* C2: when build_frontend returns or is left by an exception, the working
\* directory is the one at the call.
C2_CwdRestored ==
    BuildFrontendOver => cwd = atCall.cwd

\* The part of C2 the code keeps: when build_frontend returns, or an
\* exception leaves it before the change of directory.
C2_RestoredWhenItReturns ==
    (pc = "b_ret" \/ (pc = "b_raise" /\ trace = <<"call build_frontend">>)) =>
        cwd = atCall.cwd

InMain == stack = <<"main">> \/ pc \in {"m_ret", "m_raise"}

\* C6: in main, without FRONTEND_DIR neither function is called and main
\* returns; with it build_frontend is called first, and
\* process_frontend_files only right after build_frontend returned success.
C6_MainOrder ==
    InMain =>
        /\ ~frontend.exists => (trace = <<>> /\ pc \in {"m_exists", "m_ret"})
        /\ (frontend.exists /\ pc # "m_exists") => trace[1] = "call build_frontend"
        /\ \A i \in 1..Len(trace) :
              trace[i] = "call process_frontend_files" =>
                  /\ i > 1
                  /\ trace[i - 1] = "build_frontend True"
                  /\ \E j \in 1..(i - 1) : trace[j] = "call build_frontend"
        /\ Has("build_frontend False") => ~Has("call process_frontend_files")

C6_Witness ==
    /\ pc = "m_ret"
    /\ Has("process_frontend_files True")
    /\ Before("build_frontend True", "call process_frontend_files")

\* C7: no exception leaves build_frontend, process_frontend_files or main.
C7_NothingPropagates ==
    /\ exc = "none"
    /\ pc \notin {"b_raise", "m_raise"}

\* what the commands of the current call did
InstallRan == Has("install exit 0") \/ Has("install exit 1") \/ Has("install interrupted")

BuildRan == Has("build exit 0") \/ Has("build exit 1") \/ Has("build interrupted")

CommandFailed == Has("install exit 1") \/ Has("build exit 1")

BuildDirMissingAfter == Has("build exit 0") /\ ~build.exists

SuccessMeansBuilt ==
    (pc = "b_ret" /\ ret = "True") =>
        /\ Has("build exit 0")
        /\ build.exists
        /\ InstallRan <=> ~atCall.frontend.node_modules
        /\ InstallRan => Before("install exit 0", "build exit 0")

FailedInstallStops ==
    Has("install exit 1") => ~(BuildRan \/ Has("build not started"))

\* C10: success means the build command ran and exited zero, after an
\* install that ran exactly when node_modules was absent and exited zero,
\* and BUILD_DIR exists; after a nonzero exit of install the build command is
\* not run; a nonzero exit of either command, or BUILD_DIR missing after the
\* build, makes build_frontend return failure.
C10_BuildSteps ==
    /\ SuccessMeansBuilt
    /\ FailedInstallStops
    /\ (BuildFrontendOver /\ (CommandFailed \/ BuildDirMissingAfter)) =>
          (pc = "b_ret" /\ ret = "False")

\* The part of C10 the code keeps: the same, of the calls that return.
C10_WhenItReturns ==
    /\ SuccessMeansBuilt
    /\ FailedInstallStops
    /\ (pc = "b_ret" /\ (CommandFailed \/ BuildDirMissingAfter)) => ret = "False"

====
